---- MODULE Spec2Model ----
(***************************************************************************)
(* PolicyAsCodeMaintenance: modules/git_controller.py (change extraction), *)
(* modules/pac_analyzer.py (PaC membership, commit classification,         *)
(* repository aggregation), p1_data_collect.py (the run over the           *)
(* repository list), data_aggreagate.py (merging result files) and         *)
(* cochanged_file_analysis.py (co-change statistics and rule mining).      *)
(***************************************************************************)
EXTENDS Integers, Sequences, FiniteSets, TLC

VARIABLES
    pac_files_df,    \* PacAnalyzer._pac_files_df: set of <<repo_id, path>> rows
    repo,            \* the git history handed to get_commit_changes
    commit_changes,  \* the commit map: an ordered dict, as <<[key, value], ...>>
    results,         \* what analyze_repository returned or raised
    pc,              \* position of the pipeline run
    repo_list,       \* the repositories of the CSV list and what is on disk for each
    run,             \* what DataCollector.analyze_repositories returned or raised
    result_files,    \* the result files handed to aggregate_results
    aggregated,      \* what aggregate_results returned
    analysis_data,   \* the analysis result and the thresholds handed to the miner
    mined,           \* cochange data, statistics and rules of the miner
    jobs             \* the analyze_repository calls in progress, one per worker

pipelineVars == <<pac_files_df, repo, commit_changes, results>>
collectVars == <<repo_list, run>>
mergeVars == <<result_files, aggregated>>
mineVars == <<analysis_data, mined>>
vars == <<pipelineVars, pc, collectVars, mergeVars, mineVars, jobs>>

(***************************************************************************)
(* Bounds of the model.                                                    *)
(***************************************************************************)
MaxCommits == 2      \* entries of a commit map / commits of a history
MaxFiles == 2        \* files listed over a whole commit map / history

(***************************************************************************)
(* Program constants.                                                      *)
(***************************************************************************)
GIT_DELTA_ADDED == 1
GIT_DELTA_DELETED == 2
GIT_DELTA_MODIFIED == 3
GIT_DELTA_RENAMED == 4
GIT_DELTA_COPIED == 5
None == -1           \* Python's None where an integer is expected

(***************************************************************************)
(* Input domains.                                                          *)
(***************************************************************************)
Paths == {"policy.rego", "main.go"}
RepoIds == {1, 2}
Statuses == {GIT_DELTA_ADDED, GIT_DELTA_DELETED, GIT_DELTA_MODIFIED,
             GIT_DELTA_RENAMED, GIT_DELTA_COPIED}
LineStats == {<<2, 1>>}               \* (additions, deletions) of one patch
\* registries: any rows for repository 1, one row for repository 2
Registries == {{<<2, "policy.rego">>} \cup ({1} \X S) : S \in SUBSET Paths}
\* project_name, split at '/': None is <<>>, "acme" is <<"acme">>
NoneName == <<>>
ProjectNames == {NoneName, <<"acme">>, <<"acme", "infra">>}

Range(s) == {s[i] : i \in 1..Len(s)}

RECURSIVE SumSeq(_)
SumSeq(s) == IF s = <<>> THEN 0 ELSE Head(s) + SumSeq(Tail(s))

RECURSIVE Flatten(_)
Flatten(ss) == IF ss = <<>> THEN <<>> ELSE Head(ss) \o Flatten(Tail(ss))

\* one entry of commit_info['changes']
ChangeRecord(file, additions, deletions, status) ==
    [file |-> file, additions |-> additions, deletions |-> deletions,
     total_changes |-> additions + deletions, status |-> status]

\* a commit_info dict (author, message and date play no part in the analysis)
CommitInfo(files, changes) ==
    [is_dict |-> TRUE, files |-> files, changes |-> changes]

\* a value of the commit map that is not a dict
NotADict == [is_dict |-> FALSE]

(***************************************************************************)
(* Change Extractor: get_commit_changes.                                   *)
(*                                                                         *)
(* A history is the sequence of commits repo.walk yields.  A commit is     *)
(* [id, parents, patches, tree]: the number of its parents, the patches of *)
(* the diff against its first parent, and its tree.  A patch is            *)
(* [path_ok, path, status, line_stats], line_stats being pygit2's          *)
(* (context, additions, deletions).  A tree is a sequence of entries       *)
(* sorted by name; an entry is a blob [type, name, is_binary, data], a     *)
(* subtree [type, name, entries] or a submodule link [type, name, in_odb]. *)
(* The data of a blob is a sequence of bytes, each a line feed "LF", a     *)
(* text byte "CH" or a byte "BAD" that is no valid UTF-8.                  *)
(***************************************************************************)
\* len(commit.parents) >= 2 with one parent too many allowed
skip_commit_MoreThanTwo(commit) == commit.parents > 2

\* if len(commit.parents) >= 2: continue
skip_commit(commit) == commit.parents >= 2

\* the patches whose new_file.path can be read
readable_patches(patches) == SelectSeq(patches, LAMBDA patch : patch.path_ok)

\* the loop over the diff against the first parent
diff_commit_info(patches) ==
    LET ps == readable_patches(patches)
    IN  CommitInfo([i \in 1..Len(ps) |-> ps[i].path],
                   [i \in 1..Len(ps) |->
                        ChangeRecord(ps[i].path, ps[i].line_stats[2],
                                     ps[i].line_stats[3], ps[i].status)])

\* bytes.decode('utf-8', errors='ignore'): the invalid bytes are dropped
decode_ignore(data) == SelectSeq(data, LAMBDA b : b # "BAD")

\* str.count('\n')
count_newlines(text) == Len(SelectSeq(text, LAMBDA b : b = "LF"))

\* repo[entry.id] raises KeyError when the object is not in the repository
lookup_raises(entry) == entry.type = "commit" /\ ~entry.in_odb

\* the lines counted for an entry whose object was found
blob_lines(entry) ==
    IF entry.type = "blob"
    THEN IF entry.is_binary THEN 0
         ELSE count_newlines(decode_ignore(entry.data))
    ELSE 0      \* no is_binary and no data attribute

\* walk_tree over the entries of one tree; acc is commit_info so far and
\* whether an exception is on its way to the handler around walk_tree(tree)
RECURSIVE walk_tree(_, _, _)
walk_tree(entries, prefix, acc) ==
    IF entries = <<>> \/ acc.raised THEN acc
    ELSE LET entry == Head(entries)
             full_path == prefix \o entry.name
         IN  IF entry.type = "tree"
             THEN walk_tree(Tail(entries), prefix,
                            walk_tree(entry.entries,
                                      prefix \o entry.name \o "/", acc))
             ELSE IF lookup_raises(entry)
             THEN [files |-> Append(acc.files, full_path),
                   changes |-> acc.changes, raised |-> TRUE]
             ELSE walk_tree(Tail(entries), prefix,
                    [files |-> Append(acc.files, full_path),
                     changes |-> Append(acc.changes,
                                        ChangeRecord(full_path, blob_lines(entry),
                                                     0, GIT_DELTA_ADDED)),
                     raised |-> FALSE])

\* the initial commit: walk_tree(tree) inside try / except Exception: pass
root_commit_info(tree) ==
    LET walked == walk_tree(tree, "", [files |-> <<>>, changes |-> <<>>,
                                        raised |-> FALSE])
    IN  CommitInfo(walked.files, walked.changes)

get_commit_changes(history) ==
    LET kept == SelectSeq(history, LAMBDA commit : ~skip_commit(commit))
    IN  [i \in 1..Len(kept) |->
            [key |-> kept[i].id,
             value |-> IF kept[i].parents > 0
                       THEN diff_commit_info(kept[i].patches)
                       ELSE root_commit_info(kept[i].tree)]]

(***************************************************************************)
(* PaC Membership Index.                                                   *)
(***************************************************************************)
is_pac_file(repo_id, file_path) == <<repo_id, file_path>> \in pac_files_df

(***************************************************************************)
(* Commit objects and the classifier.                                      *)
(***************************************************************************)
Commit(commit_id, files, changes, pac_changes, other_changes) ==
    [commit_id |-> commit_id, files |-> files, changes |-> changes,
     pac_changes |-> pac_changes, other_changes |-> other_changes]

has_pac_changes(commit) == Len(commit.pac_changes) > 0
get_pac_added_lines(commit) ==
    SumSeq([i \in 1..Len(commit.pac_changes) |-> commit.pac_changes[i].additions])
get_pac_deleted_lines(commit) ==
    SumSeq([i \in 1..Len(commit.pac_changes) |-> commit.pac_changes[i].deletions])
get_total_added_lines(commit) ==
    SumSeq([i \in 1..Len(commit.changes) |-> commit.changes[i].additions])
get_total_deleted_lines(commit) ==
    SumSeq([i \in 1..Len(commit.changes) |-> commit.changes[i].deletions])

\* one item of the commit map
Item(key, value) == [key |-> key, value |-> value]

parse_commits(cc) ==
    LET dicts == SelectSeq(cc, LAMBDA item : item.value.is_dict)
    IN  [k \in 1..Len(dicts) |->
            Commit(dicts[k].key, dicts[k].value.files, dicts[k].value.changes,
                   <<>>, <<>>)]

\* {change['file']: change for change in commit.changes}: the last record wins
change_map(changes) ==
    [f \in {changes[i].file : i \in 1..Len(changes)} |->
        changes[CHOOSE i \in 1..Len(changes) :
                    /\ changes[i].file = f
                    /\ \A j \in (i + 1)..Len(changes) : changes[j].file # f]]

\* pac_file_info without the test of the status
pac_file_info_NoStatusFilter(repo_id, commit, file_path) ==
    LET cm == change_map(commit.changes)
    IN  IF ~is_pac_file(repo_id, file_path) THEN <<>>
        ELSE IF file_path \notin DOMAIN cm THEN <<>>
        ELSE << [file |-> file_path,
                 additions |-> cm[file_path].additions,
                 deletions |-> cm[file_path].deletions,
                 total_changes |-> cm[file_path].total_changes,
                 status |-> cm[file_path].status] >>

\* first loop of count_pac_changes_from_commits, one file
pac_file_info(repo_id, commit, file_path) ==
    LET cm == change_map(commit.changes)
    IN  IF ~is_pac_file(repo_id, file_path) THEN <<>>
        ELSE IF file_path \notin DOMAIN cm THEN <<>>
        ELSE IF cm[file_path].status \in {1, 2} THEN <<>>
        ELSE << [file |-> file_path,
                 additions |-> cm[file_path].additions,
                 deletions |-> cm[file_path].deletions,
                 total_changes |-> cm[file_path].total_changes,
                 status |-> cm[file_path].status] >>

\* other_file_info without the test of the membership
other_file_info_NoPacTest(repo_id, commit, file_path) ==
    LET cm == change_map(commit.changes)
    IN  IF file_path \in DOMAIN cm /\ cm[file_path].status \in {1, 2} THEN <<>>
        ELSE IF file_path \in DOMAIN cm THEN << cm[file_path] >>
        ELSE << [file |-> file_path, additions |-> 0, deletions |-> 0,
                 total_changes |-> 0, status |-> None] >>

\* second loop of count_pac_changes_from_commits, one file
other_file_info(repo_id, commit, file_path) ==
    LET cm == change_map(commit.changes)
    IN  IF is_pac_file(repo_id, file_path) THEN <<>>
        ELSE IF file_path \in DOMAIN cm /\ cm[file_path].status \in {1, 2} THEN <<>>
        ELSE IF file_path \in DOMAIN cm THEN << cm[file_path] >>
        ELSE << [file |-> file_path, additions |-> 0, deletions |-> 0,
                 total_changes |-> 0, status |-> None] >>

classify(repo_id, commit) ==
    Commit(commit.commit_id, commit.files, commit.changes,
           Flatten([i \in 1..Len(commit.files) |->
                        pac_file_info(repo_id, commit, commit.files[i])]),
           Flatten([i \in 1..Len(commit.files) |->
                        other_file_info(repo_id, commit, commit.files[i])]))

\* count_pac_changes_from_commits adding one per commit with PaC changes
count_pac_changes_from_commits_PerCommit(repo_id, commits) ==
    LET classified == [i \in 1..Len(commits) |-> classify(repo_id, commits[i])]
        withPac == SelectSeq(classified, LAMBDA c : c.pac_changes # <<>>)
    IN  [commits |-> classified,
         pac_changes_count |-> Len(withPac),
         pac_commits |->
             [i \in 1..Len(withPac) |->
                 [commit_id |-> withPac[i].commit_id,
                  pac_files |-> withPac[i].pac_changes]]]

\* count_pac_changes_from_commits recording every commit in pac_commits
count_pac_changes_from_commits_AllCommits(repo_id, commits) ==
    LET classified == [i \in 1..Len(commits) |-> classify(repo_id, commits[i])]
    IN  [commits |-> classified,
         pac_changes_count |->
             SumSeq([i \in 1..Len(classified) |-> Len(classified[i].pac_changes)]),
         pac_commits |->
             [i \in 1..Len(classified) |->
                 [commit_id |-> classified[i].commit_id,
                  pac_files |-> classified[i].pac_changes]]]

\* the commits after the loop, the counter and the pac_commits dict
count_pac_changes_from_commits(repo_id, commits) ==
    LET classified == [i \in 1..Len(commits) |-> classify(repo_id, commits[i])]
        withPac == SelectSeq(classified, LAMBDA c : c.pac_changes # <<>>)
    IN  [commits |-> classified,
         pac_changes_count |->
             SumSeq([i \in 1..Len(withPac) |-> Len(withPac[i].pac_changes)]),
         pac_commits |->
             [i \in 1..Len(withPac) |->
                 [commit_id |-> withPac[i].commit_id,
                  pac_files |-> withPac[i].pac_changes]]]

(***************************************************************************)
(* Repository Aggregator.                                                  *)
(***************************************************************************)
\* pac_change_ratio dividing without the test of total_commits
pac_change_ratio_Unguarded(pac_changes_count, total_commits) ==
    [num |-> pac_changes_count, den |-> total_commits,
     raised |-> (total_commits = 0)]

\* pac_changes_count / total_commits if total_commits > 0 else 0, as a fraction
pac_change_ratio(pac_changes_count, total_commits) ==
    IF total_commits > 0
    THEN [num |-> pac_changes_count, den |-> total_commits, raised |-> FALSE]
    ELSE [num |-> 0, den |-> 1, raised |-> FALSE]

\* project_name and '/' in project_name
has_slash(project_name) == Len(project_name) >= 2

analyze_repository(repo_id, commit_map, project_name) ==
    LET total_commits == Len(commit_map)
        commits == parse_commits(commit_map)
        counted == count_pac_changes_from_commits(repo_id, commits)
        pac_files == Flatten([i \in 1..Len(counted.pac_commits) |->
                                counted.pac_commits[i].pac_files])
        ratio == pac_change_ratio(counted.pac_changes_count, total_commits)
    IN  IF ~has_slash(project_name)
        THEN [status |-> "raised", error |-> "UnboundLocalError"]
        ELSE IF ratio.raised
        THEN [status |-> "raised", error |-> "ZeroDivisionError"]
        ELSE [status |-> "ok",
              repository_id |-> repo_id,
              project_name |-> project_name,
              repository_name |-> project_name[2],
              owner_name |-> project_name[1],
              total_commits |-> total_commits,
              pac_changes_count |-> counted.pac_changes_count,
              pac_commits_count |-> Len(counted.pac_commits),
              pac_change_ratio |-> [num |-> ratio.num, den |-> ratio.den],
              commits |-> counted.commits,
              statistics |->
                [total_added_lines |->
                    SumSeq([i \in 1..Len(commits) |-> get_total_added_lines(commits[i])]),
                 total_deleted_lines |->
                    SumSeq([i \in 1..Len(commits) |-> get_total_deleted_lines(commits[i])]),
                 pac_added_lines |->
                    SumSeq([i \in 1..Len(pac_files) |-> pac_files[i].additions]),
                 pac_deleted_lines |->
                    SumSeq([i \in 1..Len(pac_files) |-> pac_files[i].deletions]),
                 total_modified_lines |->
                    SumSeq([i \in 1..Len(commits) |-> get_total_added_lines(commits[i])
                                + get_total_deleted_lines(commits[i])]),
                 pac_modified_lines |->
                    SumSeq([i \in 1..Len(pac_files) |->
                                pac_files[i].additions + pac_files[i].deletions])]]

(***************************************************************************)
(* The commit maps analyze_repository is run on.                           *)
(***************************************************************************)
\* one file of a commit: its path and its change record, if it has one
Touches ==
    {[file |-> f, change |-> <<>>] : f \in Paths}
    \cup {[file |-> f, change |-> <<ChangeRecord(f, ls[1], ls[2], s)>>] :
            f \in Paths, s \in Statuses, ls \in LineStats}

RECURSIVE TouchSeqs(_)
TouchSeqs(n) ==
    IF n = 0 THEN {<<>>}
    ELSE {Append(ts, t) : ts \in TouchSeqs(n - 1), t \in Touches}

InfoOf(ts) ==
    CommitInfo([i \in 1..Len(ts) |-> ts[i].file],
               Flatten([i \in 1..Len(ts) |-> ts[i].change]))

\* the entries that list exactly k files
EntriesOfSize(k) ==
    {InfoOf(ts) : ts \in TouchSeqs(k)} \cup (IF k = 0 THEN {NotADict} ELSE {})

\* an entry weighs the files it lists, and at least one
EntriesOfWeight(w) ==
    EntriesOfSize(w) \cup (IF w = 1 THEN EntriesOfSize(0) ELSE {})

\* the sequences of at most n entries that weigh at most b in all
RECURSIVE EntrySeqs(_, _)
EntrySeqs(n, b) ==
    {<<>>} \cup
    (IF n = 0 THEN {}
     ELSE UNION {{<<e>> \o rest : e \in EntriesOfWeight(w),
                                  rest \in EntrySeqs(n - 1, b - w)} : w \in 1..b})

\* a commit map of these values, keyed by commit ids 1, 2, ...
MapOf(values) == [i \in 1..Len(values) |-> Item(i, values[i])]

\* spec.md section 8: commit1 adds policy.rego, commit2 modifies policy.rego
\* (+5/-1) and main.go (+2/-0), commit3 modifies main.go (+1/-1)
ScenarioMap == MapOf(
    << CommitInfo(<<"policy.rego">>,
                  <<ChangeRecord("policy.rego", 3, 0, GIT_DELTA_ADDED)>>),
       CommitInfo(<<"policy.rego", "main.go">>,
                  <<ChangeRecord("policy.rego", 5, 1, GIT_DELTA_MODIFIED),
                    ChangeRecord("main.go", 2, 0, GIT_DELTA_MODIFIED)>>),
       CommitInfo(<<"main.go">>,
                  <<ChangeRecord("main.go", 1, 1, GIT_DELTA_MODIFIED)>>) >>)

\* the commit maps the analysis is run on
InputMaps == {MapOf(vs) : vs \in EntrySeqs(MaxCommits, MaxFiles)} \cup {ScenarioMap}

(***************************************************************************)
(* The histories get_commit_changes is run on.                             *)
(***************************************************************************)
BlobSamples ==
    { [is_binary |-> FALSE, data |-> <<"CH", "LF", "CH", "LF">>],
      [is_binary |-> FALSE, data |-> <<"BAD", "LF">>],
      [is_binary |-> TRUE, data |-> <<"CH", "LF">>] }

\* the names of a tree in git's order, and what each names
TreeNames == <<"lib", "main.go", "policies", "policy.rego">>
NameType == [n \in Range(TreeNames) |->
                CASE n = "policies" -> "tree"
                  [] n = "lib" -> "commit"
                  [] OTHER -> "blob"]

\* the trees of exactly k entries, subtrees' entries included, whose names
\* come after position r of TreeNames
RECURSIVE Trees(_, _)
Trees(k, r) ==
    IF k = 0 THEN {<<>>}
    ELSE UNION {
        LET n == TreeNames[j]
        IN  CASE NameType[n] = "blob" ->
                   {<<[type |-> "blob", name |-> n, is_binary |-> b.is_binary,
                       data |-> b.data]>> \o rest :
                        b \in BlobSamples, rest \in Trees(k - 1, j)}
              [] NameType[n] = "commit" ->
                   {<<[type |-> "commit", name |-> n, in_odb |-> o]>> \o rest :
                        o \in BOOLEAN, rest \in Trees(k - 1, j)}
              [] OTHER ->
                   UNION {{<<[type |-> "tree", name |-> n, entries |-> sub]>> \o rest :
                              sub \in Trees(w, 0), rest \in Trees(k - 1 - w, j)} :
                          w \in 0..(k - 1)}
        : j \in (r + 1)..Len(TreeNames)}

Patches ==
    {[path_ok |-> TRUE, path |-> f, status |-> s,
      line_stats |-> <<4, ls[1], ls[2]>>] :
        f \in Paths, s \in Statuses, ls \in LineStats}
    \cup {[path_ok |-> FALSE, path |-> "", status |-> GIT_DELTA_MODIFIED,
           line_stats |-> <<0, 0, 0>>]}

RECURSIVE PatchSeqs(_)
PatchSeqs(n) ==
    IF n = 0 THEN {<<>>}
    ELSE {Append(ps, patch) : ps \in PatchSeqs(n - 1), patch \in Patches}

\* the commits (without their id) that touch exactly k files
GitCommitsOfSize(k) ==
    {[parents |-> 1, patches |-> ps, tree |-> <<>>] : ps \in PatchSeqs(k)}
    \cup {[parents |-> 0, patches |-> <<>>, tree |-> t] : t \in Trees(k, 0)}
    \cup (IF k = 0 THEN {[parents |-> 2, patches |-> <<>>, tree |-> <<>>]} ELSE {})

\* a commit weighs the files it touches, and at least one
GitCommitsOfWeight(w) ==
    GitCommitsOfSize(w) \cup (IF w = 1 THEN GitCommitsOfSize(0) ELSE {})

\* the sequences of at most n commits that weigh at most b in all
RECURSIVE GitCommitSeqs(_, _)
GitCommitSeqs(n, b) ==
    {<<>>} \cup
    (IF n = 0 THEN {}
     ELSE UNION {{<<c>> \o rest : c \in GitCommitsOfWeight(w),
                                  rest \in GitCommitSeqs(n - 1, b - w)} : w \in 1..b})

\* the history of these commits, their ids being 1, 2, ...
HistoryOf(cs) ==
    [i \in 1..Len(cs) |->
        [id |-> i, parents |-> cs[i].parents, patches |-> cs[i].patches,
         tree |-> cs[i].tree]]

Histories == {HistoryOf(cs) : cs \in GitCommitSeqs(MaxCommits, MaxFiles) \ {<<>>}}

NoResult == [status |-> "none"]
NoRepo == <<>>

\* the components that take no part in a specification stay as they start
CollectIdle == repo_list = <<>> /\ run = NoResult
MergeIdle == result_files = <<>> /\ aggregated = NoResult
MineIdle == analysis_data = NoResult /\ mined = NoResult
JobsIdle == jobs = <<>>

(***************************************************************************)
(* Specification of the analysis of one repository's commit map.           *)
(***************************************************************************)
Init ==
    /\ commit_changes \in InputMaps
    /\ pac_files_df \in Registries
    /\ repo = NoRepo
    /\ results = NoResult
    /\ pc = "extracted"
    /\ CollectIdle /\ MergeIdle /\ MineIdle /\ JobsIdle

AnalyzeRepository ==
    /\ pc = "extracted"
    /\ \E repo_id \in RepoIds, project_name \in ProjectNames :
          results' = analyze_repository(repo_id, commit_changes, project_name)
    /\ pc' = "analyzed"
    /\ UNCHANGED <<pac_files_df, repo, commit_changes>>
    /\ UNCHANGED <<collectVars, mergeVars, mineVars, jobs>>

Next == AnalyzeRepository

Spec == Init /\ [][Next]_vars

(***************************************************************************)
(* Specification of the extraction of one repository's history.           *)
(***************************************************************************)
InitExtract ==
    /\ repo \in Histories
    /\ pac_files_df = {}
    /\ commit_changes = <<>>
    /\ results = NoResult
    /\ pc = "cloned"
    /\ CollectIdle /\ MergeIdle /\ MineIdle /\ JobsIdle

GetCommitChanges ==
    /\ pc = "cloned"
    /\ commit_changes' = get_commit_changes(repo)
    /\ pc' = "extracted"
    /\ UNCHANGED <<pac_files_df, repo, results>>
    /\ UNCHANGED <<collectVars, mergeVars, mineVars, jobs>>

NextExtract == GetCommitChanges

SpecExtract == InitExtract /\ [][NextExtract]_vars

(***************************************************************************)
(* Claims about the classifier and the aggregator (specification Spec).    *)
(***************************************************************************)
Analyzed == pc = "analyzed" /\ results.status = "ok"

FilesIn(records) == {records[i].file : i \in 1..Len(records)}
Counted(commit) == Range(commit.pac_changes) \cup Range(commit.other_changes)
RecordsOf(commit, f) == {r \in Range(commit.changes) : r.file = f}

\* C1: a file is placed in pac_changes or other_changes only if its change
\* status is Modified, Renamed or Copied, and a file whose status is Added or
\* Deleted is in neither list.
C1_OnlyModifiedRenamedCopied ==
    Analyzed =>
        \A i \in 1..Len(results.commits) :
            LET c == results.commits[i]
            IN  /\ \A e \in Counted(c) :
                      e.status \in {GIT_DELTA_MODIFIED, GIT_DELTA_RENAMED,
                                    GIT_DELTA_COPIED}
                /\ \A f \in Range(c.files) :
                      (/\ RecordsOf(c, f) # {}
                       /\ \A r \in RecordsOf(c, f) :
                             r.status \in {GIT_DELTA_ADDED, GIT_DELTA_DELETED})
                      => f \notin FilesIn(c.pac_changes) \cup FilesIn(c.other_changes)

\* C2: every entry of pac_changes and other_changes refers to a file that has
\* a record in the commit's changes; a path of files without a record is in
\* neither list.
C2_CountedFilesHaveRecord ==
    Analyzed =>
        \A i \in 1..Len(results.commits) :
            LET c == results.commits[i]
            IN  \A e \in Counted(c) : e.file \in FilesIn(c.changes)

\* C3: no file path is in both pac_changes and other_changes of a commit.
C3_PartitionsDisjoint ==
    Analyzed =>
        \A i \in 1..Len(results.commits) :
            FilesIn(results.commits[i].pac_changes)
                \cap FilesIn(results.commits[i].other_changes) = {}

C3_Witness ==
    /\ Analyzed
    /\ \E i \in 1..Len(results.commits) :
          /\ results.commits[i].pac_changes # <<>>
          /\ results.commits[i].other_changes # <<>>

\* C4: pac_change_ratio is pac_changes_count / total_commits when
\* total_commits > 0 and 0 otherwise, and computing it raises no division error.
C4_RatioDefined ==
    /\ results.status = "raised" => results.error # "ZeroDivisionError"
    /\ Analyzed =>
          /\ results.pac_change_ratio.den # 0
          /\ IF results.total_commits > 0
             THEN results.pac_change_ratio.num * results.total_commits
                    = results.pac_changes_count * results.pac_change_ratio.den
             ELSE results.pac_change_ratio.num = 0

C4_Witness ==
    /\ Analyzed
    /\ results.total_commits = 0
    /\ results.pac_change_ratio.num = 0

C7_PacCommitsCount ==
    Analyzed =>
        /\ results.pac_commits_count =
              Cardinality({i \in 1..Len(results.commits) :
                              results.commits[i].pac_changes # <<>>})
        /\ \A i \in 1..Len(results.commits) :
              has_pac_changes(results.commits[i])
                  <=> results.commits[i].pac_changes # <<>>

C7_Witness ==
    /\ Analyzed
    /\ results.pac_commits_count = 1
    /\ Len(results.commits) = 2

ScenarioRegistry(repo_id) ==
    /\ <<repo_id, "policy.rego">> \in pac_files_df
    /\ <<repo_id, "main.go">> \notin pac_files_df

\* C8: on the three commits of the scenario, with policy.rego the only PaC
\* file, the result has total_commits 3, pac_changes_count 1,
\* pac_commits_count 1, pac_change_ratio 1/3, pac_added_lines 5 and
\* pac_deleted_lines 1.
C8_Scenario ==
    (Analyzed /\ commit_changes = ScenarioMap
        /\ ScenarioRegistry(results.repository_id)) =>
        /\ results.total_commits = 3
        /\ results.pac_changes_count = 1
        /\ results.pac_commits_count = 1
        /\ results.pac_change_ratio.num * 3 = results.pac_change_ratio.den
        /\ results.statistics.pac_added_lines = 5
        /\ results.statistics.pac_deleted_lines = 1

C8_Witness ==
    /\ Analyzed
    /\ commit_changes = ScenarioMap
    /\ ScenarioRegistry(results.repository_id)
    /\ results.pac_changes_count = 1

(***************************************************************************)
(* Claims about the change extractor (specification SpecExtract).          *)
(***************************************************************************)
Extracted == pc = "extracted" /\ repo # NoRepo

KeysOf(cc) == {cc[i].key : i \in 1..Len(cc)}

\* C9: no commit of the output of get_commit_changes has two or more
\* parents, and every walked commit with at most one parent is in the output.
C9_NoMergeCommits ==
    Extracted =>
        /\ \A k \in KeysOf(commit_changes) :
              \E j \in 1..Len(repo) : repo[j].id = k /\ repo[j].parents <= 1
        /\ \A j \in 1..Len(repo) :
              repo[j].parents <= 1 => repo[j].id \in KeysOf(commit_changes)

C9_Witness ==
    /\ Extracted
    /\ \E j \in 1..Len(repo) : repo[j].parents >= 2
    /\ \E j \in 1..Len(repo) :
          repo[j].parents <= 1 /\ repo[j].id \in KeysOf(commit_changes)

\* the blobs reachable from a tree, each with its full path
RECURSIVE TreeFiles(_, _)
TreeFiles(entries, prefix) ==
    IF entries = <<>> THEN {}
    ELSE LET entry == Head(entries)
         IN  (CASE entry.type = "blob" ->
                     {[path |-> prefix \o entry.name, blob |-> entry]}
                [] entry.type = "tree" ->
                     TreeFiles(entry.entries, prefix \o entry.name \o "/")
                [] OTHER -> {})
             \cup TreeFiles(Tail(entries), prefix)

\* the additions the claim allows for a blob: 0 for binary content, the
\* number of line feeds for text; for content that is no valid UTF-8 either
\* reading of "cannot be decoded" is accepted
AllowedAdditions(blob) ==
    LET newlines == Cardinality({i \in 1..Len(blob.data) : blob.data[i] = "LF"})
    IN  IF blob.is_binary THEN {0}
        ELSE IF "BAD" \in Range(blob.data) THEN {0, newlines}
        ELSE {newlines}

\* C10: every file reachable from the tree of a root commit is in the
\* commit's changes with status Added, deletions 0 and additions equal to
\* the number of newline characters of its content (0 for binary content).
C10_RootCommitFilesAdded ==
    Extracted =>
        \A j \in 1..Len(repo) :
            repo[j].parents = 0 =>
                \E i \in 1..Len(commit_changes) :
                    /\ commit_changes[i].key = repo[j].id
                    /\ \A tf \in TreeFiles(repo[j].tree, "") :
                          \E r \in Range(commit_changes[i].value.changes) :
                              /\ r.file = tf.path
                              /\ r.status = GIT_DELTA_ADDED
                              /\ r.deletions = 0
                              /\ r.additions \in AllowedAdditions(tf.blob)

\* C11: in every commit of the output of get_commit_changes, files and
\* changes refer to the same files, one ChangeRecord per path of files and one
\* path of files per ChangeRecord, also when the tree walk stops part-way.
C11_FilesMatchChanges ==
    Extracted =>
        \A i \in 1..Len(commit_changes) :
            LET info == commit_changes[i].value
            IN  /\ Range(info.files) = FilesIn(info.changes)
                /\ Len(info.files) = Len(info.changes)

(***************************************************************************)
(* The collector: p1_data_collect.py, DataCollector.analyze_repositories,  *)
(* over the repositories of the CSV list.                                  *)
(***************************************************************************)
MaxRepos == 2        \* repositories of the CSV list

\* full_name split at '/'
RepoNames == {<<"acme">>, <<"acme", "infra">>}

PacHistory ==
    HistoryOf(<< [parents |-> 1, tree |-> <<>>,
                  patches |-> << [path_ok |-> TRUE, path |-> "policy.rego",
                                  status |-> GIT_DELTA_MODIFIED,
                                  line_stats |-> <<4, 2, 1>>] >>] >>)
MergeOnlyHistory == HistoryOf(<< [parents |-> 2, tree |-> <<>>, patches |-> <<>>] >>)

\* what repos_dir/full_name is: nothing, a directory pygit2 cannot open, or a
\* repository with a history
OnDisk ==
    {[state |-> "missing"], [state |-> "corrupt"]}
    \cup {[state |-> "ok", history |-> h] : h \in {PacHistory, MergeOnlyHistory}}

RECURSIVE RepoLists(_)
RepoLists(n) ==
    IF n = 0 THEN {<<>>}
    ELSE RepoLists(n - 1)
         \cup {Append(l, [id |-> n, full_name |-> name, disk |-> d]) :
                  l \in {x \in RepoLists(n - 1) : Len(x) = n - 1},
                  name \in RepoNames, d \in OnDisk}

CollectRegistry == RepoIds \X {"policy.rego"}

\* list_directories(repos_dir): the first path segments that exist
get_cloned_repositories(list) ==
    {list[i].full_name[1] : i \in {j \in 1..Len(list) : list[j].disk.state # "missing"}}

\* an exception of get_commit_changes becomes the empty dict
get_repository_changes(repo_info) ==
    IF repo_info.disk.state # "ok" THEN <<>>
    ELSE get_commit_changes(repo_info.disk.history)

RunRaised == [status |-> "raised", error |-> "RuntimeError"]

\* the loop of analyze_repositories from repository i on
RECURSIVE analyze_from(_, _, _)
analyze_from(list, i, acc) ==
    IF i > Len(list) THEN [status |-> "returned", results |-> acc]
    ELSE LET changes == get_repository_changes(list[i])
             analysis_result ==
                 analyze_repository(list[i].id, changes, list[i].full_name)
         IN  IF changes = <<>> THEN RunRaised
             ELSE IF analysis_result.status = "raised" THEN RunRaised
             ELSE analyze_from(list, i + 1, Append(acc, analysis_result))

analyze_repositories(list) ==
    IF get_cloned_repositories(list) = {} THEN RunRaised
    ELSE analyze_from(list, 1, <<>>)

InitCollect ==
    /\ repo_list \in RepoLists(MaxRepos) \ {<<>>}
    /\ pac_files_df = CollectRegistry
    /\ repo = NoRepo
    /\ commit_changes = <<>>
    /\ results = NoResult
    /\ run = NoResult
    /\ pc = "listed"
    /\ MergeIdle /\ MineIdle /\ JobsIdle

AnalyzeRepositories ==
    /\ pc = "listed"
    /\ run' = analyze_repositories(repo_list)
    /\ pc' = "collected"
    /\ UNCHANGED <<pipelineVars, repo_list, mergeVars, mineVars, jobs>>

NextCollect == AnalyzeRepositories

SpecCollect == InitCollect /\ [][NextCollect]_vars

(***************************************************************************)
(* Claims about the collector (specification SpecCollect).                 *)
(***************************************************************************)
Collected == pc = "collected"

\* the repository yields commits and its analysis returns
Succeeds(repo_info) ==
    LET changes == get_repository_changes(repo_info)
    IN  /\ changes # <<>>
        /\ analyze_repository(repo_info.id, changes, repo_info.full_name).status = "ok"

\* C12: a repository whose extraction or analysis fails is skipped: the run
\* returns, and its results are those of the repositories that succeeded, in
\* the order of the list.
C12_FailureSkipsOnlyThatRepository ==
    Collected =>
        LET ok == SelectSeq(repo_list, Succeeds)
        IN  /\ run.status = "returned"
            /\ run.results =
                  [k \in 1..Len(ok) |->
                      analyze_repository(ok[k].id, get_repository_changes(ok[k]),
                                         ok[k].full_name)]

(***************************************************************************)
(* The merger: data_aggreagate.py, load_result_file and aggregate_results. *)
(* A JSON object is a record whose DOMAIN is the set of its keys.          *)
(***************************************************************************)
MaxResultFiles == 2      \* result files handed to aggregate_results
MaxRepositories == 2     \* repositories listed over all the result files

\* repositories of a result file: counts above zero, counts of zero, no counts
RepoSamples ==
    { [repository_id |-> 1, total_commits |-> 3, pac_changes_count |-> 4,
       pac_commits_count |-> 2],
      [repository_id |-> 2, total_commits |-> 0, pac_changes_count |-> 0,
       pac_commits_count |-> 0],
      [repository_id |-> 3] }

RECURSIVE RepoSeqs(_)
RepoSeqs(k) ==
    IF k = 0 THEN {<<>>}
    ELSE {Append(l, r) : l \in RepoSeqs(k - 1), r \in RepoSamples}

Unloadable == [loads |-> FALSE]
Loadable(data) == [loads |-> TRUE, data |-> data]

\* the contents of a file that lists exactly k repositories
ContentsOfSize(k) ==
    {Loadable([metadata |-> "m", repositories |-> l]) : l \in RepoSeqs(k)}
    \cup {Loadable([repositories |-> l]) : l \in RepoSeqs(k)}
    \cup (IF k = 0 THEN {Unloadable, Loadable([metadata |-> "m"]),
                         Loadable([note |-> "n"])}
          ELSE {})

\* a file weighs the repositories it lists, and at least one
ContentsOfWeight(w) ==
    ContentsOfSize(w) \cup (IF w = 1 THEN ContentsOfSize(0) ELSE {})

RECURSIVE ContentSeqs(_, _)
ContentSeqs(n, b) ==
    {<<>>} \cup
    (IF n = 0 THEN {}
     ELSE UNION {{<<c>> \o rest : c \in ContentsOfWeight(w),
                                  rest \in ContentSeqs(n - 1, b - w)} : w \in 1..b})

\* the files found by find_result_files, their paths being 1, 2, ...
FilesOf(cs) == [i \in 1..Len(cs) |-> [path |-> i, content |-> cs[i]]]

ResultFileLists ==
    {FilesOf(cs) : cs \in ContentSeqs(MaxResultFiles, MaxRepositories) \ {<<>>}}

NoData == [is_none |-> TRUE]

\* load_result_file without the test of 'metadata'
load_result_file_NoMetadataTest(file) ==
    IF ~file.content.loads THEN NoData
    ELSE IF "repositories" \notin DOMAIN file.content.data THEN NoData
    ELSE [is_none |-> FALSE, data |-> file.content.data]

load_result_file(file) ==
    IF ~file.content.loads THEN NoData
    ELSE IF \/ "metadata" \notin DOMAIN file.content.data
            \/ "repositories" \notin DOMAIN file.content.data
         THEN NoData
    ELSE [is_none |-> FALSE, data |-> file.content.data]

\* r.get(key, 0)
get(r, key) == IF key \in DOMAIN r THEN r[key] ELSE 0

\* extend that drops the repositories already listed
extend_Dedupe(list, items) ==
    list \o SelectSeq(items, LAMBDA r : r \notin Range(list))

\* extend that replaces the list
extend_Replace(list, items) == items

\* aggregated_repositories.extend(repositories)
extend(list, items) == list \o items

\* the loop of aggregate_results from file i on
RECURSIVE load_all(_, _, _, _)
load_all(files, i, aggregated_repositories, failed_files) ==
    IF i > Len(files)
    THEN [aggregated_repositories |-> aggregated_repositories,
          failed_files |-> failed_files]
    ELSE LET data == load_result_file(files[i])
         IN  IF data.is_none
             THEN load_all(files, i + 1, aggregated_repositories,
                           Append(failed_files, files[i].path))
             ELSE load_all(files, i + 1,
                           extend(aggregated_repositories, data.data.repositories),
                           failed_files)

\* the sum over the distinct repositories
sum_get_Distinct(repositories, key) ==
    LET firsts == {i \in 1..Len(repositories) :
                      \A j \in 1..(i - 1) : repositories[j] # repositories[i]}
    IN  SumSeq([i \in 1..Len(repositories) |->
                  IF i \in firsts THEN get(repositories[i], key) ELSE 0])

\* sum(r.get(key, 0) for r in aggregated_repositories)
sum_get(repositories, key) ==
    SumSeq([i \in 1..Len(repositories) |-> get(repositories[i], key)])

\* total / total_commits if total_commits > 0 else 0, as a fraction
merged_ratio(total, total_commits) ==
    IF total_commits > 0 THEN [num |-> total, den |-> total_commits]
    ELSE [num |-> 0, den |-> 1]

aggregate_results(files) ==
    LET loaded == load_all(files, 1, <<>>, <<>>)
        aggregated_repositories == loaded.aggregated_repositories
        failed_files == loaded.failed_files
        total_commits == sum_get(aggregated_repositories, "total_commits")
        total_pac_changes == sum_get(aggregated_repositories, "pac_changes_count")
        total_pac_commits == sum_get(aggregated_repositories, "pac_commits_count")
    IN  [status |-> "ok",
         metadata |->
            [source_files |-> [i \in 1..Len(files) |-> files[i].path],
             failed_files |-> failed_files,
             total_source_files |-> Len(files),
             successful_files |-> Len(files) - Len(failed_files),
             total_repositories |-> Len(aggregated_repositories),
             summary |->
                [total_commits |-> total_commits,
                 total_pac_changes |-> total_pac_changes,
                 total_pac_commits |-> total_pac_commits,
                 pac_change_ratio |->
                     merged_ratio(total_pac_changes, total_commits),
                 pac_commit_ratio |->
                     merged_ratio(total_pac_commits, total_commits)]],
         repositories |-> aggregated_repositories]

InitMerge ==
    /\ result_files \in ResultFileLists
    /\ pac_files_df = {}
    /\ repo = NoRepo
    /\ commit_changes = <<>>
    /\ results = NoResult
    /\ aggregated = NoResult
    /\ pc = "found"
    /\ CollectIdle /\ MineIdle /\ JobsIdle

AggregateResults ==
    /\ pc = "found"
    /\ aggregated' = aggregate_results(result_files)
    /\ pc' = "merged"
    /\ UNCHANGED <<pipelineVars, collectVars, result_files, mineVars, jobs>>

NextMerge == AggregateResults

SpecMerge == InitMerge /\ [][NextMerge]_vars

(***************************************************************************)
(* Claims about the merger (specification SpecMerge).                      *)
(***************************************************************************)
Merged == pc = "merged"

\* the file loads and has both top-level fields
ValidInput(file) ==
    /\ file.content.loads
    /\ {"metadata", "repositories"} \subseteq DOMAIN file.content.data

ValidFiles == SelectSeq(result_files, ValidInput)
InvalidFiles == SelectSeq(result_files, LAMBDA file : ~ValidInput(file))

C14_SummaryRecomputed ==
    Merged =>
        LET sm == aggregated.metadata.summary
            rs == aggregated.repositories
            Total(key) == SumSeq([i \in 1..Len(rs) |->
                                    IF key \in DOMAIN rs[i] THEN rs[i][key] ELSE 0])
            IsRatio(ratio, total) ==
                /\ ratio.den > 0
                /\ IF sm.total_commits > 0
                   THEN ratio.num * sm.total_commits = total * ratio.den
                   ELSE ratio.num = 0
        IN  /\ sm.total_commits = Total("total_commits")
            /\ sm.total_pac_changes = Total("pac_changes_count")
            /\ sm.total_pac_commits = Total("pac_commits_count")
            /\ IsRatio(sm.pac_change_ratio, sm.total_pac_changes)
            /\ IsRatio(sm.pac_commit_ratio, sm.total_pac_commits)

\* two repositories with commits are merged
C14_Witness ==
    /\ Merged
    /\ Len(aggregated.repositories) = 2
    /\ aggregated.metadata.summary.total_commits = 6
    /\ aggregated.metadata.summary.pac_change_ratio = [num |-> 8, den |-> 6]

\* C15: the merged list is the concatenation, in input order, of the lists of
\* the valid inputs; a repository listed by two inputs is listed twice.
C15_ConcatenationKeepsDuplicates ==
    Merged =>
        /\ aggregated.repositories
              = Flatten([i \in 1..Len(ValidFiles) |->
                            ValidFiles[i].content.data.repositories])
        /\ aggregated.metadata.total_repositories = Len(aggregated.repositories)

\* the same repository comes from two inputs
C15_Witness ==
    /\ Merged
    /\ Len(ValidFiles) = 2
    /\ Len(aggregated.repositories) = 2
    /\ aggregated.repositories[1] = aggregated.repositories[2]
    /\ aggregated.repositories[1].repository_id = 1
    /\ aggregated.metadata.summary.total_pac_commits = 4

\* a valid input that lists no repository
EmptyDataset(file) ==
    ValidInput(file) /\ file.content.data.repositories = <<>>

\* the list without its i-th file
Without(files, i) ==
    [k \in 1..(Len(files) - 1) |-> IF k < i THEN files[k] ELSE files[k + 1]]

\* C16: merging with an empty dataset, in either order, gives the
\* repositories and the summary of merging the other inputs alone.
C16_EmptyDatasetIsNeutral ==
    Merged =>
        \A i \in 1..Len(result_files) :
            (EmptyDataset(result_files[i]) /\ Len(result_files) > 1) =>
                LET alone == aggregate_results(Without(result_files, i))
                IN  /\ aggregated.repositories = alone.repositories
                    /\ aggregated.metadata.summary = alone.metadata.summary

\* a dataset with a repository, merged before an empty dataset
C16_Witness ==
    /\ Merged
    /\ Len(result_files) = 2
    /\ ValidInput(result_files[1])
    /\ ~EmptyDataset(result_files[1])
    /\ EmptyDataset(result_files[2])
    /\ aggregated.repositories = result_files[1].content.data.repositories

(***************************************************************************)
(* The rule miner: cochanged_file_analysis.py.  A file path is the         *)
(* sequence of the pieces of its last component between the dots           *)
(* ("x.tar.gz" is <<"x", "tar", "gz">>, ".gitignore" is <<"", "gitignore">>), *)
(* an extension a string, a ratio a fraction [num, den].                   *)
(***************************************************************************)
MaxMinedCommits == 3     \* commits of the analysis result handed to the miner
MaxChangedFiles == 4     \* files changed over all these commits

PacFileNames == <<  <<"policy", "rego">>, <<"deploy", "yaml">>  >>
OtherFileNames == <<  <<"main", "go">>, <<"values", "YAML">>  >>

\* str.lower() on the pieces used
Lower(piece) == IF piece = "YAML" THEN "yaml" ELSE piece

\* Path(file_path).suffix: from the last dot on, unless the name starts or
\* ends there
has_suffix(file_path) ==
    LET n == Len(file_path)
    IN  /\ n >= 2
        /\ file_path[n] # ""
        /\ ~(n = 2 /\ file_path[1] = "")

\* path.stem.endswith('.tar')
stem_ends_with_tar(file_path) ==
    LET n == Len(file_path)
    IN  IF has_suffix(file_path) THEN n >= 3 /\ file_path[n - 1] = "tar"
        ELSE n >= 2 /\ file_path[n] = "tar"

extract_file_extension(file_path) ==
    LET suffix == IF has_suffix(file_path)
                  THEN "." \o Lower(file_path[Len(file_path)]) ELSE ""
        extension == IF stem_ends_with_tar(file_path) THEN ".tar" \o suffix
                     ELSE suffix
    IN  IF extension # "" THEN extension ELSE "no_extension"

\* one commit of a result file
CommitDict(flag, pac_files, other_files) ==
    [has_pac_changes |-> flag,
     pac_changes |-> [i \in 1..Len(pac_files) |-> [file |-> pac_files[i]]],
     other_changes |-> [i \in 1..Len(other_files) |-> [file |-> other_files[i]]]]

\* the subsequences of k elements of a sequence
SubSeqs(s, k) ==
    {SelectSeq(s, LAMBDA x : x \in picked) :
        picked \in {c \in SUBSET Range(s) : Cardinality(c) = k}}

\* the commits that change exactly k files, as the collector writes them, and
\* two whose has_pac_changes does not tell whether pac_changes is empty
MinedCommitsOfSize(k) ==
    UNION {{CommitDict(Len(pf) > 0, pf, of) :
               pf \in SubSeqs(PacFileNames, j), of \in SubSeqs(OtherFileNames, k - j)} :
           j \in 0..k}
    \cup (IF k = 1 THEN {CommitDict(TRUE, <<>>, << <<"main", "go">> >>)} ELSE {})
    \cup (IF k = 2 THEN {CommitDict(FALSE, << <<"policy", "rego">> >>,
                                    << <<"main", "go">> >>)}
          ELSE {})

\* a commit weighs the files it changes, and at least one
MinedCommitsOfWeight(w) ==
    MinedCommitsOfSize(w) \cup (IF w = 1 THEN MinedCommitsOfSize(0) ELSE {})

RECURSIVE MinedCommitSeqs(_, _)
MinedCommitSeqs(n, b) ==
    {<<>>} \cup
    (IF n = 0 THEN {}
     ELSE UNION {{<<c>> \o rest : c \in MinedCommitsOfWeight(w),
                                  rest \in MinedCommitSeqs(n - 1, b - w)} : w \in 1..b})

\* a commit with an archive and a file without extension next to the policy
ArchiveCommits ==
    << CommitDict(TRUE, << <<"policy", "rego">> >>,
                  << <<"x", "tar", "gz">>, <<"Dockerfile">>, <<"", "gitignore">> >>) >>

\* {rego, go} once and then {rego, yaml} four times
GoFirstCommits ==
    [i \in 1..5 |->
        CommitDict(TRUE, << <<"policy", "rego">> >>,
                   IF i >= 2 THEN << <<"values", "YAML">> >>
                   ELSE << <<"main", "go">> >>)]

\* {rego, yaml} four times and {rego, go} once
ScenarioCommits ==
    [i \in 1..5 |->
        CommitDict(TRUE, << <<"policy", "rego">> >>,
                   IF i <= 4 THEN << <<"values", "YAML">> >>
                   ELSE << <<"main", "go">> >>)]

AnalysisData ==
    {[status |-> "loaded", commits |-> cs] :
        cs \in MinedCommitSeqs(MaxMinedCommits, MaxChangedFiles)
               \cup {ArchiveCommits, ScenarioCommits, GoFirstCommits}}

Fraction(num, den) == [num |-> num, den |-> den]
MinSupports == {Fraction(1, 100), Fraction(1, 10), Fraction(3, 4)}
MinConfidences == {Fraction(1, 10), Fraction(1, 2), Fraction(1, 1)}

\* a / b >= c / d for positive b and d
GreaterEq(x, y) == x.num * y.den >= y.num * x.den

\* {f(x['file']) for x in changes}
extensions_of(changes) ==
    {extract_file_extension(changes[i].file) : i \in 1..Len(changes)}

extract_cochanged_extensions(commits) ==
    LET entry(commit) ==
            [pac_extensions |-> extensions_of(commit.pac_changes),
             other_extensions |-> extensions_of(commit.other_changes),
             num_pac_files |-> Len(commit.pac_changes),
             num_other_files |-> Len(commit.other_changes)]
        kept == SelectSeq(commits,
                    LAMBDA commit :
                        /\ commit.has_pac_changes
                        /\ extensions_of(commit.pac_changes) # {})
    IN  [i \in 1..Len(kept) |-> entry(kept[i])]

\* how many entries of the sequence satisfy the test
CountOf(s, Test(_)) == Cardinality({i \in 1..Len(s) : Test(s[i])})

\* the counter of the pairs of a PaC extension with any extension of the commit
cochange_counter_AllExtensions(cochange_data) ==
    LET all(d) == d.pac_extensions \cup d.other_extensions
        pairs == UNION {cochange_data[i].pac_extensions \X all(cochange_data[i]) :
                           i \in 1..Len(cochange_data)}
    IN  [pr \in pairs |->
            CountOf(cochange_data, LAMBDA d : /\ pr[1] \in d.pac_extensions
                                              /\ pr[2] \in all(d))]

\* cochange_counter[(pac_ext, other_ext)] += 1 over the entries
cochange_counter(cochange_data) ==
    LET pairs == UNION {cochange_data[i].pac_extensions \X cochange_data[i].other_extensions :
                           i \in 1..Len(cochange_data)}
    IN  [pr \in pairs |->
            CountOf(cochange_data, LAMBDA d : /\ pr[1] \in d.pac_extensions
                                              /\ pr[2] \in d.other_extensions)]

calculate_extension_statistics(cochange_data) ==
    LET pac_exts == UNION {cochange_data[i].pac_extensions : i \in 1..Len(cochange_data)}
        other_exts == UNION {cochange_data[i].other_extensions : i \in 1..Len(cochange_data)}
    IN  [pac_extensions |->
            [e \in pac_exts |-> CountOf(cochange_data, LAMBDA d : e \in d.pac_extensions)],
         other_extensions |->
            [e \in other_exts |-> CountOf(cochange_data, LAMBDA d : e \in d.other_extensions)],
         cochange_pairs |-> cochange_counter(cochange_data),
         total_commits |-> Len(cochange_data),
         commits_with_other_files |->
            CountOf(cochange_data, LAMBDA d : d.other_extensions # {})]

\* f"pac:{ext}" and f"other:{ext}"
RuleItem(side, ext) == [side |-> side, ext |-> ext]

\* the transaction database that also takes the commits without other files
transactions_of_AnyOtherSet(cochange_data) ==
    [i \in 1..Len(cochange_data) |->
        {RuleItem("pac", e) : e \in cochange_data[i].pac_extensions}
        \cup {RuleItem("other", e) : e \in cochange_data[i].other_extensions}]

\* the transaction database of mine_association_rules
transactions_of(cochange_data) ==
    LET eligible == SelectSeq(cochange_data,
                        LAMBDA d : d.pac_extensions # {} /\ d.other_extensions # {})
    IN  [i \in 1..Len(eligible) |->
            {RuleItem("pac", e) : e \in eligible[i].pac_extensions}
            \cup {RuleItem("other", e) : e \in eligible[i].other_extensions}]

\* the threshold rounded up
min_support_count_Ceiling(min_support, total_transactions) ==
    (min_support.num * total_transactions + min_support.den - 1) \div min_support.den

\* int(min_support * total_transactions)
min_support_count(min_support, total_transactions) ==
    (min_support.num * total_transactions) \div min_support.den

item_counts(transactions, item) ==
    CountOf(transactions, LAMBDA t : item \in t)

\* the keys of pair_counts: a PaC item and an other item of one transaction
pair_keys(transactions) ==
    UNION {{<<a, c>> : a \in {x \in transactions[i] : x.side = "pac"},
                       c \in {x \in transactions[i] : x.side = "other"}} :
           i \in 1..Len(transactions)}

\* the count when a pair is counted once for each of the two tests of the loop
pair_counts_BothTests(transactions, antecedent, consequent) ==
    2 * CountOf(transactions, LAMBDA t : antecedent \in t /\ consequent \in t)

pair_counts(transactions, antecedent, consequent) ==
    CountOf(transactions, LAMBDA t : antecedent \in t /\ consequent \in t)

\* the rule whose confidence is taken over the consequent
rule_of_ConfidenceOverConsequent(transactions, antecedent, consequent) ==
    LET count == pair_counts(transactions, antecedent, consequent)
        total_transactions == Len(transactions)
    IN  [antecedent |-> antecedent.ext,
         consequent |-> consequent.ext,
         support |-> Fraction(count, total_transactions),
         confidence |-> Fraction(count, item_counts(transactions, consequent)),
         lift |-> IF item_counts(transactions, consequent) > 0
                  THEN Fraction(count * total_transactions,
                                item_counts(transactions, consequent)
                                    * item_counts(transactions, consequent))
                  ELSE Fraction(0, 1),
         count |-> count,
         antecedent_count |-> item_counts(transactions, antecedent),
         consequent_count |-> item_counts(transactions, consequent)]

\* the rule of a pair, with its metrics
rule_of(transactions, antecedent, consequent) ==
    LET count == pair_counts(transactions, antecedent, consequent)
        total_transactions == Len(transactions)
    IN  [antecedent |-> antecedent.ext,
         consequent |-> consequent.ext,
         support |-> Fraction(count, total_transactions),
         confidence |-> Fraction(count, item_counts(transactions, antecedent)),
         \* confidence / consequent_support if consequent_support > 0 else 0
         lift |-> IF item_counts(transactions, consequent) > 0
                  THEN Fraction(count * total_transactions,
                                item_counts(transactions, antecedent)
                                    * item_counts(transactions, consequent))
                  ELSE Fraction(0, 1),
         count |-> count,
         antecedent_count |-> item_counts(transactions, antecedent),
         consequent_count |-> item_counts(transactions, consequent)]

\* the orders in which a set can be iterated: list(transaction)
PermsOf(S) ==
    {p \in [1..Cardinality(S) -> S] : \A i, j \in 1..Cardinality(S) : i # j => p[i] # p[j]}

\* the keys when every pair of items is counted, whatever their sides
pairs_in_order_AnySides(items) ==
    LET n == Len(items)
    IN  Flatten([i \in 1..n |->
                    Flatten([k \in 1..(n - i) |-> << <<items[i], items[i + k]>> >>])])

\* the keys the loops over i and j > i touch, in that order, for one iteration
\* order of a transaction
pairs_in_order(items) ==
    LET n == Len(items)
        key(i, j) ==
            IF items[i].side = "pac" /\ items[j].side = "other"
            THEN << <<items[i], items[j]>> >>
            ELSE IF items[j].side = "pac" /\ items[i].side = "other"
            THEN << <<items[j], items[i]>> >>
            ELSE <<>>
    IN  Flatten([i \in 1..n |-> Flatten([k \in 1..(n - i) |-> key(i, i + k)])])

\* the orders in which pair_counts can receive its keys: the transactions in
\* their order, each of them in an iteration order the program does not fix
RECURSIVE insertion_orders(_, _, _)
insertion_orders(transactions, i, keys) ==
    IF i > Len(transactions) THEN {keys}
    ELSE UNION {insertion_orders(transactions, i + 1,
                    keys \o SelectSeq(pairs_in_order(items),
                                      LAMBDA k : k \notin Range(keys))) :
                items \in PermsOf(transactions[i])}

\* the rules appended when the confidence is not tested
retained_rules_NoConfidenceTest(transactions, keys, min_support, min_confidence) ==
    LET kept == SelectSeq(keys,
                    LAMBDA q :
                        pair_counts(transactions, q[1], q[2])
                            >= min_support_count(min_support, Len(transactions)))
    IN  [k \in 1..Len(kept) |-> rule_of(transactions, kept[k][1], kept[k][2])]

\* the rules appended when the confidence has to be at most the threshold
retained_rules_ConfidenceAtMost(transactions, keys, min_support, min_confidence) ==
    LET kept == SelectSeq(keys,
                    LAMBDA q :
                        /\ pair_counts(transactions, q[1], q[2])
                              >= min_support_count(min_support, Len(transactions))
                        /\ GreaterEq(min_confidence,
                                     rule_of(transactions, q[1], q[2]).confidence))
    IN  [k \in 1..Len(kept) |-> rule_of(transactions, kept[k][1], kept[k][2])]

\* the rules appended to the list, in the order of the keys of pair_counts
retained_rules(transactions, keys, min_support, min_confidence) ==
    LET kept == SelectSeq(keys,
                    LAMBDA q :
                        /\ pair_counts(transactions, q[1], q[2])
                              >= min_support_count(min_support, Len(transactions))
                        /\ GreaterEq(rule_of(transactions, q[1], q[2]).confidence,
                                     min_confidence))
    IN  [k \in 1..Len(kept) |-> rule_of(transactions, kept[k][1], kept[k][2])]

\* the key (confidence, support) of x is above that of y
KeyAbove(x, y) ==
    \/ ~GreaterEq(y.confidence, x.confidence)
    \/ /\ GreaterEq(y.confidence, x.confidence) /\ GreaterEq(x.confidence, y.confidence)
       /\ ~GreaterEq(y.support, x.support)

KeyEqual(x, y) == ~KeyAbove(x, y) /\ ~KeyAbove(y, x)

\* sorting upwards and reversing the list: equal keys come out reversed
sorted_rules_ReversedTies(rules) ==
    LET n == Len(rules)
        o == CHOOSE p \in [1..n -> 1..n] :
                /\ \A i, j \in 1..n : i # j => p[i] # p[j]
                /\ \A i, j \in 1..n :
                      i < j => \/ KeyAbove(rules[p[i]], rules[p[j]])
                               \/ /\ KeyEqual(rules[p[i]], rules[p[j]])
                                  /\ p[i] > p[j]
    IN  [i \in 1..n |-> rules[o[i]]]

\* rules.sort(key=(confidence, support), reverse=True): a stable sort, equal
\* keys keep their order
sorted_rules(rules) ==
    LET n == Len(rules)
        o == CHOOSE p \in [1..n -> 1..n] :
                /\ \A i, j \in 1..n : i # j => p[i] # p[j]
                /\ \A i, j \in 1..n :
                      i < j => \/ KeyAbove(rules[p[i]], rules[p[j]])
                               \/ /\ KeyEqual(rules[p[i]], rules[p[j]])
                                  /\ p[i] < p[j]
    IN  [i \in 1..n |-> rules[o[i]]]

\* the list returned when pair_counts received its keys in this order
mine_in_order(transactions, keys, min_support, min_confidence) ==
    IF transactions = <<>> THEN <<>>
    ELSE sorted_rules(retained_rules(transactions, keys, min_support, min_confidence))

\* the lists mine_association_rules can return
mine_association_rules(cochange_data, min_support, min_confidence) ==
    LET transactions == transactions_of(cochange_data)
    IN  {mine_in_order(transactions, keys, min_support, min_confidence) :
            keys \in insertion_orders(transactions, 1, <<>>)}

InitMine ==
    /\ analysis_data \in AnalysisData
    /\ pac_files_df = {}
    /\ repo = NoRepo
    /\ commit_changes = <<>>
    /\ results = NoResult
    /\ mined = NoResult
    /\ pc = "loaded"
    /\ CollectIdle /\ MergeIdle /\ JobsIdle

MineAssociationRules ==
    /\ pc = "loaded"
    /\ \E min_support \in MinSupports, min_confidence \in MinConfidences :
          LET cochange_data == extract_cochanged_extensions(analysis_data.commits)
              transactions == transactions_of(cochange_data)
          IN  \E keys \in insertion_orders(transactions, 1, <<>>) :
                 mined' = [status |-> "ok",
                           cochange_data |-> cochange_data,
                           stats |-> calculate_extension_statistics(cochange_data),
                           transactions |-> transactions,
                           min_support |-> min_support,
                           min_confidence |-> min_confidence,
                           pair_counts |->
                               [pr \in pair_keys(transactions) |->
                                   pair_counts(transactions, pr[1], pr[2])],
                           appended |-> retained_rules(transactions, keys,
                                                       min_support, min_confidence),
                           rules |-> mine_in_order(transactions, keys,
                                                   min_support, min_confidence)]
    /\ pc' = "mined"
    /\ UNCHANGED <<pipelineVars, collectVars, mergeVars, analysis_data, jobs>>

NextMine == MineAssociationRules

SpecMine == InitMine /\ [][NextMine]_vars

(***************************************************************************)
(* Claims about the rule miner (specification SpecMine).                   *)
(***************************************************************************)
Mined == pc = "mined"

\* the commit is flagged and lists a PaC file
HasPacSide(commit) == commit.has_pac_changes /\ commit.pac_changes # <<>>

\* the commits whose PaC files have extension e
WithPacExtension(e) ==
    {i \in 1..Len(analysis_data.commits) :
        /\ HasPacSide(analysis_data.commits[i])
        /\ \E k \in 1..Len(analysis_data.commits[i].pac_changes) :
              extract_file_extension(analysis_data.commits[i].pac_changes[k].file) = e}

\* C17: a transaction comes from each commit with has_pac_changes, a PaC file
\* and an other file, and from no other commit; a commit with PaC changes and
\* no other change is still counted in total_commits and pac_extensions of
\* the statistics.
C17_TransactionsNeedBothSides ==
    Mined =>
        /\ Len(mined.transactions)
              = CountOf(analysis_data.commits,
                        LAMBDA c : HasPacSide(c) /\ c.other_changes # <<>>)
        /\ \A i \in 1..Len(mined.transactions) :
              /\ \E x \in mined.transactions[i] : x.side = "pac"
              /\ \E x \in mined.transactions[i] : x.side = "other"
        /\ mined.stats.total_commits = CountOf(analysis_data.commits, HasPacSide)
        /\ \A e \in DOMAIN mined.stats.pac_extensions :
              mined.stats.pac_extensions[e] = Cardinality(WithPacExtension(e))

\* a commit with PaC changes only, next to one that gives a transaction
C17_Witness ==
    /\ Mined
    /\ Len(mined.transactions) = 1
    /\ mined.stats.total_commits = 2
    /\ \E i \in 1..Len(analysis_data.commits) :
          /\ HasPacSide(analysis_data.commits[i])
          /\ analysis_data.commits[i].other_changes = <<>>

\* the transactions with PaC extension x, with other extension y, with both
WithPac(x) ==
    {i \in 1..Len(mined.transactions) : RuleItem("pac", x) \in mined.transactions[i]}
WithOther(y) ==
    {i \in 1..Len(mined.transactions) : RuleItem("other", y) \in mined.transactions[i]}
WithBoth(x, y) == WithPac(x) \cap WithOther(y)

\* C18: for every returned rule, count is the number of transactions with
\* both extensions, support is count over the transactions, confidence is
\* count over the transactions with the PaC extension, and lift is confidence
\* over the fraction of transactions with the other extension.
C18_RuleMetrics ==
    Mined =>
        \A k \in 1..Len(mined.rules) :
            LET rule == mined.rules[k]
                total == Len(mined.transactions)
                count == Cardinality(WithBoth(rule.antecedent, rule.consequent))
                withX == Cardinality(WithPac(rule.antecedent))
                withY == Cardinality(WithOther(rule.consequent))
            IN  /\ rule.count = count
                /\ rule.support.den > 0
                /\ rule.support.num * total = count * rule.support.den
                /\ rule.confidence.den > 0
                /\ rule.confidence.num * withX = count * rule.confidence.den
                /\ rule.lift.den > 0
                /\ IF withY = 0 THEN rule.lift.num = 0
                   ELSE rule.lift.num * rule.confidence.den * withY
                           = rule.confidence.num * total * rule.lift.den

\* a rule whose PaC extension is in more transactions than its other extension
C18_Witness ==
    /\ Mined
    /\ \E k \in 1..Len(mined.rules) :
          /\ mined.rules[k].count = 1
          /\ mined.rules[k].antecedent_count = 2
          /\ mined.rules[k].consequent_count = 1
          /\ mined.rules[k].confidence = Fraction(1, 2)

\* the pairs of a PaC and an other extension of one transaction
CoOccurring ==
    UNION {{<<a.ext, c.ext>> : a \in {x \in mined.transactions[i] : x.side = "pac"},
                               c \in {x \in mined.transactions[i] : x.side = "other"}} :
           i \in 1..Len(mined.transactions)}

Returned(x, y) ==
    {k \in 1..Len(mined.rules) :
        mined.rules[k].antecedent = x /\ mined.rules[k].consequent = y}

C20_SupportAtLeastMinSupport ==
    Mined =>
        \A k \in 1..Len(mined.rules) :
            GreaterEq(mined.rules[k].support, mined.min_support)

\* where the rule stands in the list
PositionIn(list, rule) == CHOOSE i \in 1..Len(list) : list[i] = rule

\* x / y compared with u / v, all denominators positive
Less(x, u) == x.num * u.den < u.num * x.den
Same(x, u) == x.num * u.den = u.num * x.den

\* C21: the returned rules are the appended rules ordered by confidence, then
\* support, both descending, and rules with the same confidence and support
\* stand in the order in which they were appended.
C21_SortedStable ==
    Mined =>
        /\ Len(mined.rules) = Len(mined.appended)
        /\ Range(mined.rules) = Range(mined.appended)
        /\ \A i, j \in 1..Len(mined.rules) :
              i < j =>
                 LET x == mined.rules[i]
                     y == mined.rules[j]
                 IN  /\ ~Less(x.confidence, y.confidence)
                     /\ Same(x.confidence, y.confidence) => ~Less(x.support, y.support)
                     /\ (Same(x.confidence, y.confidence) /\ Same(x.support, y.support))
                           => PositionIn(mined.appended, x) < PositionIn(mined.appended, y)

\* the rule appended first has the lower confidence and is returned last
C21_Witness ==
    /\ Mined
    /\ Len(mined.rules) = 2
    /\ mined.rules[1] = mined.appended[2]
    /\ mined.rules[2] = mined.appended[1]
    /\ Less(mined.rules[2].confidence, mined.rules[1].confidence)

\* C22: every returned rule goes from a PaC extension to an other extension
\* of one transaction, there is one rule at most for such a pair, and its
\* count is that of the pair in this direction, also when the two extensions
\* are the same string.
C22_PacToOtherOnly ==
    Mined =>
        \A k \in 1..Len(mined.rules) :
            LET rule == mined.rules[k]
            IN  /\ <<rule.antecedent, rule.consequent>> \in CoOccurring
                /\ Returned(rule.antecedent, rule.consequent) = {k}
                /\ rule.count = Cardinality(WithBoth(rule.antecedent, rule.consequent))
                /\ rule.antecedent_count = Cardinality(WithPac(rule.antecedent))
                /\ rule.consequent_count = Cardinality(WithOther(rule.consequent))

\* one transaction has .yaml on both sides and gives the single rule
\* .yaml -> .yaml
C22_Witness ==
    /\ Mined
    /\ Len(mined.transactions) = 1
    /\ Len(mined.rules) = 1
    /\ mined.rules[1].antecedent = ".yaml"
    /\ mined.rules[1].consequent = ".yaml"
    /\ mined.rules[1].count = 1

\* the five commits of the scenario, in either order, mined with
\* min_support = 0.1 and min_confidence = 0.5
ScenarioMined ==
    /\ Mined
    /\ analysis_data.commits \in {ScenarioCommits, GoFirstCommits}
    /\ mined.min_support = Fraction(1, 10)
    /\ mined.min_confidence = Fraction(1, 2)

\* C23: the scenario returns the single rule .rego -> .yaml with count 4,
\* support 4/5 and confidence 4/5; .rego -> .go is not returned.
C23_ScenarioRules ==
    ScenarioMined =>
        /\ Len(mined.transactions) = 5
        /\ Len(mined.rules) = 1
        /\ mined.rules[1].antecedent = ".rego"
        /\ mined.rules[1].consequent = ".yaml"
        /\ mined.rules[1].count = 4
        /\ Same(mined.rules[1].support, Fraction(4, 5))
        /\ Same(mined.rules[1].confidence, Fraction(4, 5))

\* the scenario is mined and .rego -> .go was a pair of its transactions
C23_Witness ==
    /\ ScenarioMined
    /\ <<".rego", ".go">> \in CoOccurring
    /\ Cardinality(WithBoth(".rego", ".go")) = 1
    /\ Returned(".rego", ".go") = {}

\* C24: with the dataset and min_support of the run, every list returned for
\* a min_confidence at or above that of the run holds only rules of the list
\* the run returned, so it has no more rules.
C24_MonotoneInMinConfidence ==
    Mined =>
        \A higher \in MinConfidences :
            GreaterEq(higher, mined.min_confidence) =>
                \A rules \in mine_association_rules(mined.cochange_data,
                                                    mined.min_support, higher) :
                    /\ Range(rules) \subseteq Range(mined.rules)
                    /\ Len(rules) <= Len(mined.rules)

\* two rules at min_confidence 0.1, one of them gone at 0.5
C24_Witness ==
    /\ Mined
    /\ mined.min_confidence = Fraction(1, 10)
    /\ Len(mined.rules) = 2
    /\ \E rules \in mine_association_rules(mined.cochange_data, mined.min_support,
                                           Fraction(1, 2)) :
          Len(rules) = 1

\* C25: every returned rule has 1 <= count <= antecedent_count <=
\* total_transactions and count <= consequent_count <= total_transactions; so
\* support and confidence are within [0, 1], lift is not negative, and the
\* consequent fraction is not zero.
C25_RuleBounds ==
    Mined =>
        \A k \in 1..Len(mined.rules) :
            LET rule == mined.rules[k]
                total == Len(mined.transactions)
            IN  /\ 1 <= rule.count
                /\ rule.count <= rule.antecedent_count
                /\ rule.antecedent_count <= total
                /\ rule.count <= rule.consequent_count
                /\ rule.consequent_count <= total
                /\ rule.consequent_count > 0
                /\ rule.support.den > 0 /\ rule.confidence.den > 0 /\ rule.lift.den > 0
                /\ 0 <= rule.support.num /\ rule.support.num <= rule.support.den
                /\ 0 <= rule.confidence.num
                /\ rule.confidence.num <= rule.confidence.den
                /\ rule.lift.num >= 0

\* a rule whose count is below the count of its antecedent, itself the
\* number of transactions
C25_Witness ==
    /\ Mined
    /\ Len(mined.transactions) = 5
    /\ \E k \in 1..Len(mined.rules) :
          /\ mined.rules[k].count = 4
          /\ mined.rules[k].antecedent_count = 5
          /\ mined.rules[k].consequent_count = 4

\* C29: pair_counts of mine_association_rules and cochange_pairs of
\* calculate_extension_statistics hold the same pairs with the same counts,
\* and a rule's antecedent_count is the number of entries with that PaC
\* extension and some other extension.
C29_PairCountsAgree ==
    Mined =>
        /\ {<<pr[1].ext, pr[2].ext>> : pr \in DOMAIN mined.pair_counts}
              = DOMAIN mined.stats.cochange_pairs
        /\ \A pr \in DOMAIN mined.pair_counts :
              /\ pr[1].side = "pac" /\ pr[2].side = "other"
              /\ mined.pair_counts[pr] = mined.stats.cochange_pairs[<<pr[1].ext, pr[2].ext>>]
        /\ \A k \in 1..Len(mined.rules) :
              /\ mined.rules[k].count
                    = mined.stats.cochange_pairs[<<mined.rules[k].antecedent,
                                                   mined.rules[k].consequent>>]
              /\ mined.rules[k].antecedent_count
                    = CountOf(mined.cochange_data,
                              LAMBDA d : /\ mined.rules[k].antecedent \in d.pac_extensions
                                         /\ d.other_extensions # {})

\* a rule whose PaC extension is also in a commit without other files, so
\* that the statistics count it more often than the miner
C29_Witness ==
    /\ Mined
    /\ \E k \in 1..Len(mined.rules) :
          /\ mined.stats.pac_extensions[mined.rules[k].antecedent]
                > mined.rules[k].antecedent_count
          /\ mined.rules[k].count
                = mined.stats.cochange_pairs[<<mined.rules[k].antecedent,
                                               mined.rules[k].consequent>>]

(***************************************************************************)
(* Further claims about the aggregator and the classifier (specification   *)
(* Spec).                                                                  *)
(***************************************************************************)
\* C28: analyze_repository returns a result for every project_name, None and
\* a name without '/' included, and owner_name is None for these.
C28_ResultForEveryProjectName ==
    pc = "analyzed" =>
        /\ results.status = "ok"
        /\ ~has_slash(results.project_name) => results.owner_name = NoneName

\* C30: for every classified commit the lines added and deleted in PaC files
\* are at most the lines added and deleted in all its files.
C30_PacLinesWithinTotals ==
    Analyzed =>
        \A i \in 1..Len(results.commits) :
            /\ get_pac_added_lines(results.commits[i])
                  <= get_total_added_lines(results.commits[i])
            /\ get_pac_deleted_lines(results.commits[i])
                  <= get_total_deleted_lines(results.commits[i])


(***************************************************************************)
(* Specification of analyze_repository calls taken step by step: several   *)
(* calls on one PacAnalyzer, and so on one membership index, each moving   *)
(* one statement group at a time, in any interleaving.                     *)
(***************************************************************************)
MaxWorkers == 2          \* analyze_repository calls in progress together

Workers == 1..MaxWorkers

\* one commit map with a non-dict entry and a path listed twice
RepeatedMap == MapOf(
    << NotADict,
       CommitInfo(<<"policy.rego", "policy.rego", "main.go">>,
                  <<ChangeRecord("policy.rego", 2, 1, GIT_DELTA_MODIFIED)>>) >>)

\* the arguments of the calls
JobInputs ==
    { <<1, ScenarioMap, <<"acme", "infra">> >>,
      <<2, ScenarioMap, <<"acme", "infra">> >>,
      <<2, RepeatedMap, <<"acme", "infra">> >>,
      <<1, MapOf(<<CommitInfo(<<"policy.rego">>, <<>>)>>), NoneName>> }

\* the indexes the calls share
JobRegistries ==
    { {<<2, "policy.rego">>},
      {<<1, "policy.rego">>, <<1, "main.go">>, <<2, "policy.rego">>} }

\* the frame of a call of analyze_repository at its first statement
Job(repo_id, commit_map, project_name) ==
    [repo_id |-> repo_id, commit_map |-> commit_map, project_name |-> project_name,
     at |-> "called",
     commits |-> <<>>,            \* the Commit objects of parse_commits
     written |-> <<>>,            \* per Commit: assignments of lines 149-150 so far
     read |-> <<>>,               \* per Commit: read by the statistics or the serializer
     cursor |-> 0,                \* the loop of count_pac_changes_from_commits
     pac_changes_count |-> 0,
     pac_commits |-> <<>>,
     results |-> NoResult,
     serialized |-> <<>>]

\* commits = self.parse_commits(commit_changes)
parse_step(job) ==
    LET commits == parse_commits(job.commit_map)
    IN  [job EXCEPT !.commits = commits,
                    !.written = [i \in 1..Len(commits) |-> 0],
                    !.read = [i \in 1..Len(commits) |-> FALSE],
                    !.cursor = 1,
                    !.at = "classifying"]

\* pac_files_in_commit never emptied between the commits of the loop
pac_files_in_commit_Carried(job) ==
    (IF job.cursor = 1 THEN <<>> ELSE job.commits[job.cursor - 1].pac_changes)
        \o classify(job.repo_id, job.commits[job.cursor]).pac_changes

\* pac_files_in_commit = [] and what the first loop over commit.files appends
pac_files_in_commit(job) ==
    classify(job.repo_id, job.commits[job.cursor]).pac_changes

\* other_changes = [] and what the second loop over commit.files appends
other_changes_of(job) ==
    classify(job.repo_id, job.commits[job.cursor]).other_changes

\* the two assignments made on every Commit of the list
store_changes_EveryCommit(job, pac_changes, other_changes) ==
    [job EXCEPT !.commits = [i \in 1..Len(job.commits) |->
                                [job.commits[i] EXCEPT !.pac_changes = pac_changes,
                                                       !.other_changes = other_changes]],
                !.written = [i \in 1..Len(job.commits) |-> job.written[i] + 1]]

\* commit.pac_changes = pac_files_in_commit; commit.other_changes = other_changes
store_changes(job, pac_changes, other_changes) ==
    [job EXCEPT !.commits[job.cursor].pac_changes = pac_changes,
                !.commits[job.cursor].other_changes = other_changes,
                !.written[job.cursor] = @ + 1]

\* one iteration of the loop over commits
classify_step(job) ==
    LET pac_files == pac_files_in_commit(job)
        stored == store_changes(job, pac_files, other_changes_of(job))
    IN  [stored EXCEPT
            !.pac_changes_count = IF pac_files # <<>> THEN @ + Len(pac_files) ELSE @,
            !.pac_commits = IF pac_files # <<>>
                            THEN Append(@, [commit_id |-> job.commits[job.cursor].commit_id,
                                            pac_files |-> pac_files])
                            ELSE @,
            !.cursor = @ + 1]

\* the statistics, the owner and the results dict, from the frame of the call
build_results(job) ==
    LET total_commits == Len(job.commit_map)
        commits == job.commits
        pac_files == Flatten([i \in 1..Len(job.pac_commits) |->
                                job.pac_commits[i].pac_files])
        ratio == pac_change_ratio(job.pac_changes_count, total_commits)
    IN  IF ~has_slash(job.project_name)
        THEN [status |-> "raised", error |-> "UnboundLocalError"]
        ELSE IF ratio.raised
        THEN [status |-> "raised", error |-> "ZeroDivisionError"]
        ELSE [status |-> "ok",
              repository_id |-> job.repo_id,
              project_name |-> job.project_name,
              repository_name |-> job.project_name[2],
              owner_name |-> job.project_name[1],
              total_commits |-> total_commits,
              pac_changes_count |-> job.pac_changes_count,
              pac_commits_count |-> Len(job.pac_commits),
              pac_change_ratio |-> [num |-> ratio.num, den |-> ratio.den],
              commits |-> commits,
              statistics |->
                [total_added_lines |->
                    SumSeq([i \in 1..Len(commits) |-> get_total_added_lines(commits[i])]),
                 total_deleted_lines |->
                    SumSeq([i \in 1..Len(commits) |-> get_total_deleted_lines(commits[i])]),
                 pac_added_lines |->
                    SumSeq([i \in 1..Len(pac_files) |-> pac_files[i].additions]),
                 pac_deleted_lines |->
                    SumSeq([i \in 1..Len(pac_files) |-> pac_files[i].deletions]),
                 total_modified_lines |->
                    SumSeq([i \in 1..Len(commits) |-> get_total_added_lines(commits[i])
                                + get_total_deleted_lines(commits[i])]),
                 pac_modified_lines |->
                    SumSeq([i \in 1..Len(pac_files) |->
                                pac_files[i].additions + pac_files[i].deletions])]]

\* lines 180-223 of analyze_repository: every Commit is read, none is written
results_step(job) ==
    LET built == build_results(job)
    IN  [job EXCEPT !.results = built,
                    !.read = [i \in 1..Len(job.commits) |-> TRUE],
                    !.at = IF built.status = "ok" THEN "returned" ELSE "raised"]

\* DataCollector.serialize_commit_for_json
serialize_commit_for_json(commit) ==
    [commit_id |-> commit.commit_id,
     files |-> commit.files,
     pac_changes |-> commit.pac_changes,
     other_changes |-> commit.other_changes,
     has_pac_changes |-> has_pac_changes(commit),
     pac_added_lines |-> get_pac_added_lines(commit),
     pac_deleted_lines |-> get_pac_deleted_lines(commit),
     total_added_lines |-> get_total_added_lines(commit),
     total_deleted_lines |-> get_total_deleted_lines(commit)]

\* the commits of one result in serialize_results_for_json
serialize_step(job) ==
    [job EXCEPT !.serialized = [i \in 1..Len(job.results.commits) |->
                                   serialize_commit_for_json(job.results.commits[i])],
                !.at = "serialized"]

InitWorkers ==
    /\ pac_files_df \in JobRegistries
    /\ jobs \in [Workers -> {Job(in[1], in[2], in[3]) : in \in JobInputs}]
    /\ repo = NoRepo
    /\ commit_changes = <<>>
    /\ results = NoResult
    /\ pc = "workers"
    /\ CollectIdle /\ MergeIdle /\ MineIdle

ParseCommits(w) ==
    /\ jobs[w].at = "called"
    /\ jobs' = [jobs EXCEPT ![w] = parse_step(jobs[w])]
    /\ UNCHANGED <<pipelineVars, pc, collectVars, mergeVars, mineVars>>

ClassifyCommit(w) ==
    /\ jobs[w].at = "classifying"
    /\ jobs[w].cursor <= Len(jobs[w].commits)
    /\ jobs' = [jobs EXCEPT ![w] = classify_step(jobs[w])]
    /\ UNCHANGED <<pipelineVars, pc, collectVars, mergeVars, mineVars>>

BuildResults(w) ==
    /\ jobs[w].at = "classifying"
    /\ jobs[w].cursor > Len(jobs[w].commits)
    /\ jobs' = [jobs EXCEPT ![w] = results_step(jobs[w])]
    /\ UNCHANGED <<pipelineVars, pc, collectVars, mergeVars, mineVars>>

SerializeResults(w) ==
    /\ jobs[w].at = "returned"
    /\ jobs' = [jobs EXCEPT ![w] = serialize_step(jobs[w])]
    /\ UNCHANGED <<pipelineVars, pc, collectVars, mergeVars, mineVars>>

NextWorkers ==
    \E w \in Workers :
        \/ ParseCommits(w)
        \/ ClassifyCommit(w)
        \/ BuildResults(w)
        \/ SerializeResults(w)

SpecWorkers == InitWorkers /\ [][NextWorkers]_vars

(***************************************************************************)
(* Claims about the steps of the analysis (specification SpecWorkers).     *)
(***************************************************************************)
CommitsOf(w) == 1..Len(jobs[w].commits)

\* C26: the classifier assigns pac_changes and other_changes of every Commit
\* exactly once, before the statistics or the serializer read the Commit, and
\* no step changes them after that assignment.
C26_WrittenOnceBeforeRead ==
    /\ [](\A w \in DOMAIN jobs : \A i \in CommitsOf(w) :
            /\ jobs[w].written[i] <= 1
            /\ jobs[w].read[i] => jobs[w].written[i] = 1
            /\ jobs[w].at \in {"returned", "raised", "serialized"}
                  => jobs[w].written[i] = 1)
    /\ [][\A w \in DOMAIN jobs : \A i \in CommitsOf(w) :
            jobs[w].written[i] = 1 =>
                /\ jobs'[w].written[i] = 1
                /\ jobs'[w].commits[i].pac_changes = jobs[w].commits[i].pac_changes
                /\ jobs'[w].commits[i].other_changes = jobs[w].commits[i].other_changes]_vars

C26_Witness ==
    \E w \in DOMAIN jobs :
        /\ jobs[w].at = "serialized"
        /\ Len(jobs[w].commits) = 3
        /\ \E i \in CommitsOf(w) :
              /\ jobs[w].commits[i].pac_changes # <<>>
              /\ jobs[w].commits[i].other_changes # <<>>
              /\ jobs[w].serialized[i].has_pac_changes

\* C27: the analyses leave the membership index as it was constructed, and
\* whatever the interleaving of the calls sharing it, each call ends with the
\* result analyze_repository gives for its arguments alone.
C27_AnalysesIndependent ==
    /\ [](\A w \in DOMAIN jobs :
            jobs[w].at \in {"returned", "raised", "serialized"} =>
                jobs[w].results = analyze_repository(jobs[w].repo_id,
                                                     jobs[w].commit_map,
                                                     jobs[w].project_name))
    /\ [][pac_files_df' = pac_files_df]_vars

C27_Witness ==
    \E w, v \in DOMAIN jobs :
        /\ jobs[w].at = "returned"
        /\ jobs[w].results.pac_changes_count > 0
        /\ jobs[v].at = "classifying"
        /\ jobs[v].cursor = 2
        /\ jobs[v].repo_id # jobs[w].repo_id
        /\ jobs[v].commit_map # jobs[w].commit_map
        /\ jobs[v].commits[1].pac_changes # jobs[w].commits[1].pac_changes

====
